---------------------------- MODULE Spec2Model ----------------------------
(***************************************************************************)
(* A state-machine model of picture.py: the module-level pen state         *)
(* (PEN_POSITION, PEN_ROTATION, PEN_WIDTH, FILL_COLOR, OUTLINE_COLOR), the *)
(* picture buffer (IMAGE / DRAW / CANVAS) and the pixel-addressable        *)
(* Picture images.                                                         *)
(*                                                                         *)
(* Python values are modelled with their run-time type, because the code   *)
(* branches on isinstance():                                               *)
(*   a scalar is a record [k, v, e, s]                                     *)
(*     k = "int"   : the integer v                                         *)
(*     k = "float" : the float v / Scale + e * 1e-20  (e is the sign of a  *)
(*                   magnitude far below the resolution 1 / Scale; it is   *)
(*                   only representable next to v = 0)                     *)
(*     k = "str"   : the string s                                          *)
(*   an argument is a record [c, items]: c = "scalar" (items has the one   *)
(*     scalar), c = "tuple" or c = "list" (items are its elements).        *)
(***************************************************************************)
EXTENDS Integers, Sequences, FiniteSets, TLC

VARIABLES
    PEN_POSITION,   \* tuple of scalars                    (picture.py:141)
    PEN_ROTATION,   \* scalar                              (picture.py:142)
    PEN_WIDTH,      \* scalar                              (picture.py:140)
    FILL_COLOR,     \* sequence of channel integers        (picture.py:139)
    OUTLINE_COLOR,  \* sequence of channel integers        (picture.py:138)
    CANVAS,         \* the tkinter canvas: [none, width, height, resized]
                    \*                                     (picture.py:133)
    IMAGE,          \* IMAGE with its DRAW handle: [none, width, height, ops]
                    \*                                     (picture.py:134-135)
    image,          \* a Picture: [width, height, px]      (picture.py:582-592)
    moves,          \* number of drawing calls made (bounds the model)
    call,           \* the last call: [op, args]
    result,         \* its outcome: "ok" or the name of the exception raised
    ret             \* the value it returned (<< >> when it returns None)

vars == << PEN_POSITION, PEN_ROTATION, PEN_WIDTH, FILL_COLOR, OUTLINE_COLOR,
           CANVAS, IMAGE, image, moves, call, result, ret >>

penVars == << PEN_POSITION, PEN_ROTATION, PEN_WIDTH, FILL_COLOR, OUTLINE_COLOR >>

-----------------------------------------------------------------------------
(* Bounds of the model *)

\* resolution of the modelled floats: v counts units of 1 / Scale
Scale == 1000

\* at most MaxMoves drawing calls (draw_forward, the drawing primitives) are
\* made in a behaviour
MaxMoves == 2

-----------------------------------------------------------------------------
(* Python values *)

Int_(n) == [k |-> "int", v |-> n, e |-> 0, s |-> ""]

Float_(milli) == [k |-> "float", v |-> milli, e |-> 0, s |-> ""]

Str_(str) == [k |-> "str", v |-> 0, e |-> 0, s |-> str]

\* the float literal -1e-20
NegTiny == [k |-> "float", v |-> 0, e |-> -1, s |-> ""]

Scalar(x) == [c |-> "scalar", items |-> << x >>]

Tuple(xs) == [c |-> "tuple", items |-> xs]

List(xs) == [c |-> "list", items |-> xs]

IsInt(x) == x.k = "int"

IsNumber(x) == x.k \in {"int", "float"}

\* the value of a number in units of 1 / Scale (without its e part)
Milli(x) == IF x.k = "int" THEN x.v * Scale ELSE x.v

\* Python's == on two numbers (1 == 1.0 is True)
NumEq(a, b) == Milli(a) = Milli(b) /\ a.e = b.e

\* round-to-nearest of the real v / Scale + e * 1e-20 to a float: the e part
\* is absorbed by any v that is not 0
Rnd(v, e) == [k |-> "float", v |-> v, e |-> IF v = 0 THEN e ELSE 0, s |-> ""]

\* a + b on two numbers: int + int is an int, anything else a float
PyAdd(a, b) ==
    IF IsInt(a) /\ IsInt(b)
    THEN Int_(a.v + b.v)
    ELSE Rnd(Milli(a) + Milli(b), a.e + b.e)

\* C's fmod(x, 360) on the magnitude part: the remainder truncated towards
\* zero, carrying the sign of x
Fmod360(v) ==
    IF v >= 0 THEN v % (360 * Scale) ELSE 0 - ((0 - v) % (360 * Scale))

\* x % 360 (the augmented assignment PEN_ROTATION %= 360).
\*   int:   floor modulo, the result has the sign of 360
\*   float: mod = fmod(x, 360); if mod is not zero and its sign differs from
\*          the sign of 360, mod += 360 (rounded)
PyMod360(x) ==
    IF IsInt(x)
    THEN Int_(x.v % 360)
    ELSE LET m == Fmod360(x.v)
             neg == m < 0 \/ (m = 0 /\ x.e < 0)
         IN  IF neg THEN Rnd(m + 360 * Scale, x.e)
                    ELSE [k |-> "float", v |-> m, e |-> x.e, s |-> ""]

-----------------------------------------------------------------------------
(* The last call and its outcome *)

Call(op, args) == [op |-> op, args |-> args]

-----------------------------------------------------------------------------
(* Initial state: the module-level assignments *)

Black == << 0, 0, 0 >>

White == << 255, 255, 255 >>

NoImage == [none |-> TRUE, width |-> 0, height |-> 0, ops |-> << >>]

NoCanvas == [none |-> TRUE, width |-> 0, height |-> 0, resized |-> FALSE]

NoPicture == [width |-> 0, height |-> 0, px |-> << >>]

Init ==
    /\ PEN_POSITION = << Int_(0), Int_(0) >>
    /\ PEN_ROTATION = Int_(0)
    /\ PEN_WIDTH = Int_(1)
    /\ FILL_COLOR = White
    /\ OUTLINE_COLOR = Black
    /\ CANVAS = NoCanvas
    /\ IMAGE = NoImage
    /\ image = NoPicture
    /\ moves = 0
    /\ call = Call("import", << >>)
    /\ result = "ok"
    /\ ret = << >>

-----------------------------------------------------------------------------
(* Colours *)

\* ImageColor.getrgb(name) for the names used here; any other string is no
\* colour specifier and raises ValueError
GetRGB(name) ==
    CASE name = "black" -> [err |-> "ok", rgb |-> << 0, 0, 0 >>]
      [] name = "white" -> [err |-> "ok", rgb |-> << 255, 255, 255 >>]
      [] name = "red" -> [err |-> "ok", rgb |-> << 255, 0, 0 >>]
      [] name = "aquamarine" -> [err |-> "ok", rgb |-> << 127, 255, 212 >>]
      [] OTHER -> [err |-> "ValueError", rgb |-> << >>]

\* all(isinstance(channel, int) for channel in xs) over a sequence of scalars
AllInt(xs) == \A i \in 1..Len(xs) : IsInt(xs[i])

\* the integers of a sequence of int scalars
Values(xs) == [i \in 1..Len(xs) |-> xs[i].v]

\* any(channel < 0 or channel > 255 for channel in rgb)
BadChannel(rgb) == \E i \in 1..Len(rgb) : rgb[i] < 0 \/ rgb[i] > 255

\* the range check and return of parse_color
CheckRange(rgb) ==
    IF BadChannel(rgb)
    THEN [err |-> "ValueError", rgb |-> << >>]
    ELSE [err |-> "ok", rgb |-> rgb]

\* parse_color(*color): color is the tuple of the arguments
parse_color(color) ==
    IF Len(color) = 1 /\ color[1].c = "scalar" /\ color[1].items[1].k = "str"
    THEN GetRGB(color[1].items[1].s)
    ELSE IF Len(color) = 1 /\ color[1].c # "scalar" /\ AllInt(color[1].items)
    THEN CheckRange(Values(color[1].items))
    ELSE IF /\ Len(color) = 3
            /\ \A i \in 1..3 : color[i].c = "scalar" /\ IsInt(color[i].items[1])
    THEN CheckRange([i \in 1..3 |-> color[i].items[1].v])
    ELSE [err |-> "TypeError", rgb |-> << >>]

set_fill_color(color) ==
    LET p == parse_color(color)
    IN  /\ call' = Call("set_fill_color", color)
        /\ result' = p.err
        /\ ret' = << >>
        /\ FILL_COLOR' = IF p.err = "ok" THEN p.rgb ELSE FILL_COLOR
        /\ UNCHANGED << PEN_POSITION, PEN_ROTATION, PEN_WIDTH, OUTLINE_COLOR,
                        CANVAS, IMAGE, image, moves >>

set_outline_color(color) ==
    LET p == parse_color(color)
    IN  /\ call' = Call("set_outline_color", color)
        /\ result' = p.err
        /\ ret' = << >>
        /\ OUTLINE_COLOR' = IF p.err = "ok" THEN p.rgb ELSE OUTLINE_COLOR
        /\ UNCHANGED << PEN_POSITION, PEN_ROTATION, PEN_WIDTH, FILL_COLOR,
                        CANVAS, IMAGE, image, moves >>

-----------------------------------------------------------------------------
(* The picture *)

\* a faulty new buffer: the drawing of the old buffer is kept
KeepImage(width, height) ==
    [none |-> FALSE, width |-> width, height |-> height, ops |-> IMAGE.ops]

\* Image.new("RGB", (width, height), color=(255, 255, 255)) with its
\* ImageDraw.Draw: an all-white buffer on which nothing has been drawn
NewImage(width, height) ==
    [none |-> FALSE, width |-> width, height |-> height, ops |-> << >>]

\* CANVAS.config(width=width, height=height) on the existing canvas
change_picture_size(width, height) ==
    [none |-> FALSE, width |-> width, height |-> height, resized |-> TRUE]

new_picture(width, height) ==
    /\ call' = Call("new_picture", << Scalar(Int_(width)), Scalar(Int_(height)) >>)
    /\ result' = "ok"
    /\ ret' = << >>
    /\ IF CANVAS.none
       THEN CANVAS' = [none |-> FALSE, width |-> width, height |-> height,
                       resized |-> FALSE]
       ELSE CANVAS' = change_picture_size(width, height)
    /\ IMAGE' = NewImage(width, height)
    /\ UNCHANGED << PEN_POSITION, PEN_ROTATION, PEN_WIDTH, FILL_COLOR,
                    OUTLINE_COLOR, image, moves >>

-----------------------------------------------------------------------------
(* Pen position and width *)

\* the position set_position(*position) stores, or none
PositionOf(position) ==
    IF Len(position) = 1 /\ position[1].c = "tuple" /\ AllInt(position[1].items)
    THEN [err |-> "ok", val |-> position[1].items]
    ELSE IF /\ Len(position) = 2
            /\ \A i \in 1..2 : position[i].c = "scalar" /\ IsInt(position[i].items[1])
    THEN [err |-> "ok", val |-> << position[1].items[1], position[2].items[1] >>]
    ELSE [err |-> "TypeError", val |-> << >>]

set_position(position) ==
    LET p == PositionOf(position)
    IN  /\ call' = Call("set_position", position)
        /\ result' = p.err
        /\ ret' = << >>
        /\ PEN_POSITION' = IF p.err = "ok" THEN p.val ELSE PEN_POSITION
        /\ UNCHANGED << PEN_ROTATION, PEN_WIDTH, FILL_COLOR, OUTLINE_COLOR,
                        CANVAS, IMAGE, image, moves >>

get_position ==
    /\ call' = Call("get_position", << >>)
    /\ result' = "ok"
    /\ ret' = PEN_POSITION
    /\ UNCHANGED << penVars, CANVAS, IMAGE, image, moves >>

set_pen_x(x) ==
    /\ call' = Call("set_pen_x", << Scalar(x) >>)
    /\ ret' = << >>
    /\ IF Len(PEN_POSITION) >= 2
       THEN /\ PEN_POSITION' = << x, PEN_POSITION[2] >>
            /\ result' = "ok"
       ELSE /\ PEN_POSITION' = PEN_POSITION
            /\ result' = "IndexError"
    /\ UNCHANGED << PEN_ROTATION, PEN_WIDTH, FILL_COLOR, OUTLINE_COLOR,
                    CANVAS, IMAGE, image, moves >>

set_pen_y(y) ==
    /\ call' = Call("set_pen_y", << Scalar(y) >>)
    /\ ret' = << >>
    /\ IF Len(PEN_POSITION) >= 1
       THEN /\ PEN_POSITION' = << PEN_POSITION[1], y >>
            /\ result' = "ok"
       ELSE /\ PEN_POSITION' = PEN_POSITION
            /\ result' = "IndexError"
    /\ UNCHANGED << PEN_ROTATION, PEN_WIDTH, FILL_COLOR, OUTLINE_COLOR,
                    CANVAS, IMAGE, image, moves >>

set_pen_width(width) ==
    /\ call' = Call("set_pen_width", << Scalar(width) >>)
    /\ result' = "ok"
    /\ ret' = << >>
    /\ PEN_WIDTH' = width
    /\ UNCHANGED << PEN_POSITION, PEN_ROTATION, FILL_COLOR, OUTLINE_COLOR,
                    CANVAS, IMAGE, image, moves >>

-----------------------------------------------------------------------------
(* Pen direction *)

rotate(theta) ==
    /\ call' = Call("rotate", << Scalar(theta) >>)
    /\ ret' = << >>
    /\ IF IsNumber(PEN_ROTATION) /\ IsNumber(theta)
       THEN /\ PEN_ROTATION' = PyMod360(PyAdd(PEN_ROTATION, theta))
            /\ result' = "ok"
       ELSE /\ PEN_ROTATION' = PEN_ROTATION
            /\ result' = "TypeError"
    /\ UNCHANGED << PEN_POSITION, PEN_WIDTH, FILL_COLOR, OUTLINE_COLOR,
                    CANVAS, IMAGE, image, moves >>

set_direction(theta) ==
    /\ call' = Call("set_direction", << Scalar(theta) >>)
    /\ ret' = << >>
    /\ IF IsNumber(theta)
       THEN /\ PEN_ROTATION' = PyMod360(theta)
            /\ result' = "ok"
       ELSE \* PEN_ROTATION = theta is assigned before %= raises
            /\ PEN_ROTATION' = theta
            /\ result' = "TypeError"
    /\ UNCHANGED << PEN_POSITION, PEN_WIDTH, FILL_COLOR, OUTLINE_COLOR,
                    CANVAS, IMAGE, image, moves >>

-----------------------------------------------------------------------------
(* Turtle movement *)

\* 1000 * cos of 0, 10, ..., 90 degrees, rounded
CosTable == << 1000, 985, 940, 866, 766, 643, 500, 342, 174, 0 >>

\* math.cos(math.radians(x)) in units of 1 / Scale, for x a whole multiple of
\* 10 degrees
CosMilli(x) ==
    LET d == ((Milli(x) \div Scale) % 360) \div 10
        q(i) == (CosTable[i + 1] * Scale) \div 1000
    IN  IF d <= 9 THEN q(d)
        ELSE IF d <= 18 THEN 0 - q(18 - d)
        ELSE IF d <= 27 THEN 0 - q(d - 18)
        ELSE q(36 - d)

\* math.sin(math.radians(x)) in units of 1 / Scale: sin(x) = cos(x - 90)
SinMilli(x) == CosMilli(Float_(Milli(x) + 270 * Scale))

\* a faulty end point: the displacement is taken from the origin
EndCoordFromOrigin(start, trig, distance) ==
    Rnd(trig * (Milli(distance) \div Scale), 0)

\* start + math.cos(radian) * distance (float * number is a float; distance is
\* a whole number here, so the product is exact in units of 1 / Scale)
EndCoord(start, trig, distance) ==
    Rnd(Milli(start) + trig * (Milli(distance) \div Scale), 0)

\* whether ImageDraw accepts this fill / outline value as an ink of an "RGB"
\* image: a tuple of three (or four) integers
InkOk(color) == Len(color) \in {3, 4}

\* the command DRAW.line([(x1, y1), (x2, y2)], fill=OUTLINE_COLOR,
\* width=PEN_WIDTH) of draw_line
LineOp(x1, y1, x2, y2) ==
    [kind |-> "line", xy |-> << x1, y1, x2, y2 >>,
     fill |-> OUTLINE_COLOR, width |-> PEN_WIDTH]

draw_forward(distance) ==
    /\ moves < MaxMoves
    /\ moves' = moves + 1
    /\ call' = Call("draw_forward", << Scalar(distance) >>)
    /\ ret' = << >>
    /\ IF ~ IsNumber(PEN_ROTATION)
       THEN \* math.radians(PEN_ROTATION)
            /\ result' = "TypeError"
            /\ UNCHANGED << PEN_POSITION, IMAGE >>
       ELSE IF Len(PEN_POSITION) < 2
       THEN \* PEN_POSITION[0], PEN_POSITION[1]
            /\ result' = "IndexError"
            /\ UNCHANGED << PEN_POSITION, IMAGE >>
       ELSE IF ~ (IsNumber(distance) /\ IsNumber(PEN_POSITION[1])
                                     /\ IsNumber(PEN_POSITION[2]))
       THEN \* start_x + math.cos(radian) * distance
            /\ result' = "TypeError"
            /\ UNCHANGED << PEN_POSITION, IMAGE >>
       ELSE LET start_x == PEN_POSITION[1]
                start_y == PEN_POSITION[2]
                end_x == EndCoord(start_x, CosMilli(PEN_ROTATION), distance)
                end_y == EndCoord(start_y, SinMilli(PEN_ROTATION), distance)
            IN  /\ PEN_POSITION' = << end_x, end_y >>
                \* draw_line(start_x, start_y, end_x, end_y)
                /\ IF IMAGE.none
                   THEN \* DRAW is None
                        /\ result' = "AttributeError"
                        /\ IMAGE' = IMAGE
                   ELSE IF ~ InkOk(OUTLINE_COLOR)
                   THEN /\ result' = "TypeError"
                        /\ IMAGE' = IMAGE
                   ELSE /\ result' = "ok"
                        /\ IMAGE' = [IMAGE EXCEPT !.ops =
                               Append(@, LineOp(start_x, start_y, end_x, end_y))]
    /\ UNCHANGED << PEN_ROTATION, PEN_WIDTH, FILL_COLOR, OUTLINE_COLOR,
                    CANVAS, image >>

-----------------------------------------------------------------------------
(* Turtle drawing: movement along the axes on a picture that may or may    *)
(* not exist yet                                                           *)

DistanceArgs == { Int_(0), Int_(10) }

\* pos = picture.get_position() ... picture.set_position(pos)
restore_position ==
    /\ call.op = "get_position"
    /\ set_position(<< Tuple(ret) >>)

Next ==
    \/ new_picture(400, 300)
    \/ set_position(<< Scalar(Int_(100)), Scalar(Int_(100)) >>)
    \/ rotate(Int_(90))
    \/ \E distance \in DistanceArgs : draw_forward(distance)
    \/ set_pen_width(Int_(3))
    \/ set_outline_color(<< Tuple(<< Int_(1), Int_(2) >>) >>)

Spec == Init /\ [][Next]_vars

-----------------------------------------------------------------------------
(* Re-creating the picture after the pen has been used *)

PictureSizes == { << 400, 300 >>, << 800, 600 >> }

NextNew ==
    \/ \E size \in PictureSizes : new_picture(size[1], size[2])
    \/ set_position(<< Tuple(<< Int_(10), Int_(20) >>) >>)
    \/ set_pen_width(Int_(3))
    \/ set_direction(Int_(-330))
    \/ set_fill_color(<< Scalar(Str_("aquamarine")) >>)
    \/ set_outline_color(<< Scalar(Int_(95)), Scalar(Int_(158)), Scalar(Int_(160)) >>)
    \/ draw_forward(Int_(10))

SpecNew == Init /\ [][NextNew]_vars

-----------------------------------------------------------------------------
(* The pen direction under arbitrary turns *)

DirectionArgs == { Int_(10), Int_(-90), Int_(450), NegTiny }

RotateArgs == { Int_(-30), Int_(-390), Int_(400), NegTiny }

NextDir ==
    \/ \E theta \in RotateArgs : rotate(theta)
    \/ \E theta \in DirectionArgs : set_direction(theta)
    \/ new_picture(400, 300)
    \/ set_position(<< Scalar(Int_(100)), Scalar(Int_(100)) >>)
    \/ set_pen_width(Int_(3))
    \/ set_fill_color(<< Scalar(Str_("red")) >>)

SpecDir == Init /\ [][NextDir]_vars

-----------------------------------------------------------------------------
(* The pen position under every shape of argument *)

PositionArgs ==
    { << Scalar(Int_(100)), Scalar(Int_(100)) >>,
      << Tuple(<< Int_(10), Int_(20) >>) >>,
      << Tuple(<< Int_(1), Int_(2), Int_(3) >>) >>,
      << Tuple(<< >>) >>,
      << Tuple(<< Int_(1), Float_(2500) >>) >>,
      << List(<< Int_(10), Int_(20) >>) >>,
      << Scalar(Int_(5)) >>,
      << Scalar(Str_("10")), Scalar(Int_(2)) >>,
      << Scalar(Float_(1500)), Scalar(Int_(2)) >>,
      << Scalar(Int_(1)), Scalar(Int_(2)), Scalar(Int_(3)) >>,
      << >> }

NextPosition ==
    \/ \E position \in PositionArgs : set_position(position)
    \/ get_position
    \/ restore_position
    \/ set_pen_x(Int_(7))
    \/ set_pen_y(Int_(7))
    \/ new_picture(400, 300)
    \/ draw_forward(Int_(10))

SpecPosition == Init /\ [][NextPosition]_vars

-----------------------------------------------------------------------------
(* The pen colours under every shape of argument *)

ColorArgs ==
    { << Scalar(Str_("red")) >>,
      << Tuple(<< Int_(245), Int_(245), Int_(220) >>) >>,
      << List(<< Int_(245), Int_(245), Int_(220) >>) >>,
      << Scalar(Int_(95)), Scalar(Int_(158)), Scalar(Int_(160)) >>,
      << Tuple(<< Int_(1), Int_(2) >>) >>,
      << Tuple(<< Int_(1), Int_(2), Int_(3), Int_(4) >>) >>,
      << Tuple(<< Int_(0), Int_(256), Int_(0) >>) >>,
      << Scalar(Int_(-1)), Scalar(Int_(0)), Scalar(Int_(0)) >>,
      << Scalar(Int_(1)), Scalar(Int_(2)) >>,
      << Scalar(Int_(7)) >>,
      << Tuple(<< Int_(1), Float_(2500), Int_(3) >>) >>,
      << Scalar(Int_(1)), Scalar(Float_(2500)), Scalar(Int_(3)) >> }

NextColor ==
    \/ \E color \in ColorArgs : set_fill_color(color)
    \/ \E color \in ColorArgs : set_outline_color(color)
    \/ new_picture(400, 300)
    \/ draw_forward(Int_(10))

SpecColor == Init /\ [][NextColor]_vars

-----------------------------------------------------------------------------
(* Picture images: a PIL image with its PixelAccess px *)

\* a faulty pixel address: indices wrap around at both edges
PxIndexWrapping(img, x, y) ==
    [err |-> "ok", at |-> << x % img.width, y % img.height >>]

\* the pixel px[(x, y)] addresses: a negative index counts from the far edge
\* (x < 0 is column width + x), and an index still outside the image is an
\* IndexError
PxIndex(img, x, y) ==
    LET xx == IF x < 0 THEN img.width + x ELSE x
        yy == IF y < 0 THEN img.height + y ELSE y
    IN  IF xx < 0 \/ xx >= img.width \/ yy < 0 \/ yy >= img.height
        THEN [err |-> "IndexError", at |-> << 0, 0 >>]
        ELSE [err |-> "ok", at |-> << xx, yy >>]

\* the 8-bit channel a stored integer becomes
Clip8(n) == IF n < 0 THEN 0 ELSE IF n > 255 THEN 255 ELSE n

\* px[at] = color on an "RGB" image: the three channels of the ink
PxPut(px, at, color) ==
    [px EXCEPT ![at] = << Clip8(color[1]), Clip8(color[2]), Clip8(color[3]) >>]

\* a faulty write-back: the other two channels are not carried over
OnlyChannel(pixel, ch, val) == [<< 0, 0, 0 >> EXCEPT ![ch] = val]

\* the channels a channel setter writes back: the pixel it read with channel
\* ch replaced by val
WithChannel(pixel, ch, val) == [pixel EXCEPT ![ch] = val]

\* Picture(Image.new("RGB", (width, height), color=(255, 255, 255)))
blank_image(width, height) ==
    /\ call' = Call("blank_image", << Scalar(Int_(width)), Scalar(Int_(height)) >>)
    /\ result' = "ok"
    /\ ret' = << >>
    /\ image' = [width |-> width, height |-> height,
                 px |-> [at \in (0..(width - 1)) \X (0..(height - 1)) |-> White]]
    /\ UNCHANGED << penVars, CANVAS, IMAGE, moves >>

\* get_pixel (ch = 0) and get_red, get_green, get_blue (ch = 1, 2, 3)
GetterName == << "get_red", "get_green", "get_blue" >>

get_pixel(x, y) ==
    LET i == PxIndex(image, x, y)
    IN  /\ call' = Call("get_pixel", << Scalar(Int_(x)), Scalar(Int_(y)) >>)
        /\ result' = i.err
        /\ ret' = IF i.err = "ok" THEN image.px[i.at] ELSE << >>
        /\ UNCHANGED << penVars, CANVAS, IMAGE, image, moves >>

get_channel(ch, x, y) ==
    LET i == PxIndex(image, x, y)
    IN  /\ call' = Call(GetterName[ch], << Scalar(Int_(x)), Scalar(Int_(y)) >>)
        /\ result' = i.err
        /\ ret' = IF i.err = "ok" THEN << image.px[i.at][ch] >> ELSE << >>
        /\ UNCHANGED << penVars, CANVAS, IMAGE, image, moves >>

\* set_red, set_green, set_blue (ch = 1, 2, 3):
\*   red, green, blue = image.px[(x, y)]
\*   image.px[(x, y)] = (val, green, blue)
SetterName == << "set_red", "set_green", "set_blue" >>

set_channel(ch, x, y, val) ==
    LET i == PxIndex(image, x, y)
    IN  /\ call' = Call(SetterName[ch],
                        << Scalar(Int_(x)), Scalar(Int_(y)), Scalar(Int_(val)) >>)
        /\ result' = i.err
        /\ ret' = << >>
        /\ image' = IF i.err = "ok"
                    THEN [image EXCEPT !.px =
                            PxPut(@, i.at, WithChannel(image.px[i.at], ch, val))]
                    ELSE image
        /\ UNCHANGED << penVars, CANVAS, IMAGE, moves >>

\* image.px[(x, y)] = parse_color(*color): the colour is parsed first
set_pixel(x, y, color) ==
    LET p == parse_color(color)
        i == PxIndex(image, x, y)
    IN  /\ call' = Call("set_pixel",
                        << Scalar(Int_(x)), Scalar(Int_(y)) >> \o color)
        /\ ret' = << >>
        /\ IF p.err # "ok"
           THEN result' = p.err /\ image' = image
           ELSE IF i.err # "ok"
           THEN result' = i.err /\ image' = image
           ELSE IF ~ InkOk(p.rgb)
           THEN result' = "TypeError" /\ image' = image
           ELSE /\ result' = "ok"
                /\ image' = [image EXCEPT !.px = PxPut(@, i.at, p.rgb)]
        /\ UNCHANGED << penVars, CANVAS, IMAGE, moves >>

ImageSizes == { << 2, 1 >>, << 1, 2 >> }

\* coordinates inside, just outside and far outside a 2 x 1 or 1 x 2 image
Coordinates ==
    { << 0, 0 >>, << 1, 0 >>, << 0, 1 >>, << -1, 0 >>, << 0, -1 >>,
      << 2, 0 >>, << 0, 2 >>, << -3, 0 >>, << 0, -3 >> }

ChannelArgs == { 7 }

PixelColorArgs ==
    { << Scalar(Int_(255)), Scalar(Int_(7)), Scalar(Int_(7)) >>,
      << Tuple(<< Int_(0), Int_(256), Int_(0) >>) >> }

\* a Picture exists once blank_image has returned one
NextImage ==
    \/ \E size \in ImageSizes : blank_image(size[1], size[2])
    \/ image # NoPicture /\ \E at \in Coordinates : get_pixel(at[1], at[2])
    \/ image # NoPicture /\ \E at \in Coordinates, ch \in 1..3 :
           get_channel(ch, at[1], at[2])
    \/ image # NoPicture /\ \E at \in Coordinates, ch \in 1..3, val \in ChannelArgs :
           set_channel(ch, at[1], at[2], val)
    \/ image # NoPicture /\ \E at \in Coordinates, color \in PixelColorArgs :
           set_pixel(at[1], at[2], color)

SpecImage == Init /\ [][NextImage]_vars

-----------------------------------------------------------------------------
(* Polygons: DRAW.polygon and DRAW.line on a small picture                 *)

\* the vertices a polygon call is given: a Python list or tuple of (x, y)
\* pairs of ints
Vertices(c, points) == [c |-> c, items |-> points]

\* vertices + [vertices[0]]
Closed(points) == Append(points, points[1])

\* the command DRAW.polygon(vertices, fill=FILL_COLOR, outline=None)
PolygonOp(points) ==
    [kind |-> "polygon", xy |-> points, fill |-> FILL_COLOR,
     outline |-> "None"]

\* the command DRAW.line(vertices + [vertices[0]], fill=OUTLINE_COLOR,
\* width=PEN_WIDTH)
PathOp(points) ==
    [kind |-> "line", xy |-> points, fill |-> OUTLINE_COLOR,
     width |-> PEN_WIDTH]

draw_polygon(vertices) ==
    /\ moves < MaxMoves
    /\ moves' = moves + 1
    /\ call' = Call("draw_polygon", << vertices >>)
    /\ ret' = << >>
    /\ IF IMAGE.none
       THEN \* DRAW is None
            /\ result' = "AttributeError"
            /\ IMAGE' = IMAGE
       ELSE IF Len(vertices.items) = 0
       THEN \* vertices[0]
            /\ result' = "IndexError"
            /\ IMAGE' = IMAGE
       ELSE IF vertices.c # "list"
       THEN \* vertices + [vertices[0]] on a tuple
            /\ result' = "TypeError"
            /\ IMAGE' = IMAGE
       ELSE IF ~ InkOk(OUTLINE_COLOR)
       THEN /\ result' = "TypeError"
            /\ IMAGE' = IMAGE
       ELSE /\ result' = "ok"
            /\ IMAGE' = [IMAGE EXCEPT !.ops =
                            Append(@, PathOp(Closed(vertices.items)))]
    /\ UNCHANGED << penVars, CANVAS, image >>

fill_polygon(vertices) ==
    /\ moves < MaxMoves
    /\ moves' = moves + 1
    /\ call' = Call("fill_polygon", << vertices >>)
    /\ ret' = << >>
    /\ IF IMAGE.none
       THEN \* DRAW is None
            /\ result' = "AttributeError"
            /\ IMAGE' = IMAGE
       ELSE IF ~ InkOk(FILL_COLOR)
       THEN /\ result' = "TypeError"
            /\ IMAGE' = IMAGE
       ELSE IF Len(vertices.items) < 2
       THEN \* DRAW.polygon: coordinate list must contain at least 2
            \* coordinates
            /\ result' = "TypeError"
            /\ IMAGE' = IMAGE
       ELSE LET filled == Append(IMAGE.ops, PolygonOp(vertices.items))
            IN  IF vertices.c # "list"
                THEN \* vertices + [vertices[0]] on a tuple, after the fill
                     /\ result' = "TypeError"
                     /\ IMAGE' = [IMAGE EXCEPT !.ops = filled]
                ELSE IF ~ InkOk(OUTLINE_COLOR)
                THEN /\ result' = "TypeError"
                     /\ IMAGE' = [IMAGE EXCEPT !.ops = filled]
                ELSE /\ result' = "ok"
                     /\ IMAGE' = [IMAGE EXCEPT !.ops =
                            Append(filled, PathOp(Closed(vertices.items)))]
    /\ UNCHANGED << penVars, CANVAS, image >>

(* What the buffer shows: each command paints the pixels it covers, a     *)
(* later command over an earlier one.  The polygons of the model have      *)
(* horizontal, vertical and diagonal edges only and are convex, so the     *)
(* pixels of an edge are the grid points between its end points.           *)

Cross(a, b, p) == (b[1] - a[1]) * (p[2] - a[2]) - (b[2] - a[2]) * (p[1] - a[1])

Between(u, v, w) == (u <= w /\ w <= v) \/ (v <= w /\ w <= u)

OnSegment(a, b, p) ==
    /\ Cross(a, b, p) = 0
    /\ Between(a[1], b[1], p[1])
    /\ Between(a[2], b[2], p[2])

\* the pixels of the line through the points of path, in order
OnPath(path, p) ==
    \E i \in 1..(Len(path) - 1) : OnSegment(path[i], path[i + 1], p)

\* strictly inside the convex polygon with these vertices
Inside(points, p) ==
    LET n == Len(points)
        side(i) == Cross(points[i], points[(i % n) + 1], p)
    IN  \/ \A i \in 1..n : side(i) > 0
        \/ \A i \in 1..n : side(i) < 0

Covers(op, p) ==
    IF op.kind = "line"
    THEN OnPath(op.xy, p)
    ELSE OnPath(Closed(op.xy), p) \/ Inside(op.xy, p)

Pixels(img) == (0..(img.width - 1)) \X (0..(img.height - 1))

\* the colour of pixel p of the buffer
ColorAt(img, p) ==
    LET hits == { i \in 1..Len(img.ops) : Covers(img.ops[i], p) }
    IN  IF hits = {}
        THEN White
        ELSE img.ops[CHOOSE i \in hits : \A j \in hits : j <= i].fill

PolygonArgs ==
    { Vertices("list", << << 1, 1 >>, << 3, 1 >>, << 3, 3 >> >>),
      Vertices("list", << << 0, 2 >>, << 2, 0 >>, << 4, 2 >>, << 2, 4 >> >>),
      Vertices("list", << << 1, 3 >>, << 3, 3 >> >>),
      Vertices("list", << << 2, 2 >> >>),
      Vertices("list", << >>),
      Vertices("tuple", << << 1, 1 >>, << 3, 1 >>, << 3, 3 >> >>) }

NextPolygon ==
    \/ new_picture(5, 5)
    \/ set_fill_color(<< Scalar(Str_("red")) >>)
    \/ set_outline_color(<< Scalar(Int_(0)), Scalar(Int_(0)), Scalar(Int_(255)) >>)
    \/ set_outline_color(<< Scalar(Str_("red")) >>)
    \/ set_pen_width(Int_(3))
    \/ \E vertices \in PolygonArgs : draw_polygon(vertices)
    \/ \E vertices \in PolygonArgs : fill_polygon(vertices)

SpecPolygon == Init /\ [][NextPolygon]_vars

-----------------------------------------------------------------------------
(* Shapes, lines, text and images: the commands given to DRAW and IMAGE    *)

\* the value None of a fill the command is not given
None == "None"

\* the call's arguments, all ints
Ints(xs) == [i \in 1..Len(xs) |-> Scalar(Int_(xs[i]))]

\* DRAW.ellipse([(x - hrad, y - vrad), (x + hrad, y + vrad)], fill=...,
\* outline=OUTLINE_COLOR, width=PEN_WIDTH)
EllipseOp(x, y, hrad, vrad, fill) ==
    [kind |-> "ellipse", xy |-> << x - hrad, y - vrad, x + hrad, y + vrad >>,
     fill |-> fill, outline |-> OUTLINE_COLOR, width |-> PEN_WIDTH]

\* DRAW.arc([(x - radius, y - radius), (x + radius, y + radius)], start, end,
\* fill=OUTLINE_COLOR, width=PEN_WIDTH)
ArcOp(x, y, radius, start, end) ==
    [kind |-> "arc",
     xy |-> << x - radius, y - radius, x + radius, y + radius >>,
     start |-> start, end |-> end,
     fill |-> OUTLINE_COLOR, width |-> PEN_WIDTH]

\* DRAW.chord([(x - radius, y - radius), (x + radius, y + radius)], start,
\* end, outline=OUTLINE_COLOR, fill=..., width=PEN_WIDTH)
ChordOp(x, y, radius, start, end, fill) ==
    [kind |-> "chord",
     xy |-> << x - radius, y - radius, x + radius, y + radius >>,
     start |-> start, end |-> end,
     fill |-> fill, outline |-> OUTLINE_COLOR, width |-> PEN_WIDTH]

\* a faulty rectangle: its corner is taken relative to the pen position
RectangleOpAtPen(x, y, w, h, fill) ==
    LET px == Milli(PEN_POSITION[1]) \div Scale
        py == Milli(PEN_POSITION[2]) \div Scale
    IN  [kind |-> "rectangle",
         xy |-> << px + x, py + y, px + x + w, py + y + h >>,
         fill |-> fill, outline |-> OUTLINE_COLOR, width |-> PEN_WIDTH]

\* DRAW.rectangle([(x, y), (x + w, y + h)], fill=..., outline=OUTLINE_COLOR,
\* width=PEN_WIDTH)
RectangleOp(x, y, w, h, fill) ==
    [kind |-> "rectangle", xy |-> << x, y, x + w, y + h >>,
     fill |-> fill, outline |-> OUTLINE_COLOR, width |-> PEN_WIDTH]

\* DRAW.text((x, y), text, font=font, fill=OUTLINE_COLOR, width=PEN_WIDTH)
TextOp(x, y, text, font_size) ==
    [kind |-> "text", xy |-> << x, y >>, text |-> text, size |-> font_size,
     fill |-> OUTLINE_COLOR, width |-> PEN_WIDTH]

\* IMAGE.paste(image.image, box=(x, y))
PasteOp(x, y, img) ==
    [kind |-> "paste", xy |-> << x, y >>, px |-> img.px]

\* one drawing call: it fails without drawing when there is no picture
\* (DRAW is None) or when ImageDraw rejects an ink, and otherwise gives its
\* commands to DRAW
Draw(name, args, inksOk, ops) ==
    /\ moves < MaxMoves
    /\ moves' = moves + 1
    /\ call' = Call(name, args)
    /\ ret' = << >>
    /\ IF IMAGE.none
       THEN /\ result' = "AttributeError"
            /\ IMAGE' = IMAGE
       ELSE IF ~ inksOk
       THEN /\ result' = "TypeError"
            /\ IMAGE' = IMAGE
       ELSE /\ result' = "ok"
            /\ IMAGE' = [IMAGE EXCEPT !.ops = @ \o ops]
    /\ UNCHANGED << penVars, CANVAS, image >>

draw_oval(x, y, hrad, vrad) ==
    Draw("draw_oval", Ints(<< x, y, hrad, vrad >>), InkOk(OUTLINE_COLOR),
         << EllipseOp(x, y, hrad, vrad, None) >>)

fill_oval(x, y, hrad, vrad) ==
    Draw("fill_oval", Ints(<< x, y, hrad, vrad >>),
         InkOk(OUTLINE_COLOR) /\ InkOk(FILL_COLOR),
         << EllipseOp(x, y, hrad, vrad, FILL_COLOR) >>)

\* draw_oval(x, y, r, r)
draw_circle(x, y, r) ==
    Draw("draw_circle", Ints(<< x, y, r >>), InkOk(OUTLINE_COLOR),
         << EllipseOp(x, y, r, r, None) >>)

\* fill_oval(x, y, r, r)
fill_circle(x, y, r) ==
    Draw("fill_circle", Ints(<< x, y, r >>),
         InkOk(OUTLINE_COLOR) /\ InkOk(FILL_COLOR),
         << EllipseOp(x, y, r, r, FILL_COLOR) >>)

draw_arc(x, y, radius, start, end) ==
    Draw("draw_arc", Ints(<< x, y, radius, start, end >>),
         InkOk(OUTLINE_COLOR), << ArcOp(x, y, radius, start, end) >>)

draw_chord(x, y, radius, start, end) ==
    Draw("draw_chord", Ints(<< x, y, radius, start, end >>),
         InkOk(OUTLINE_COLOR), << ChordOp(x, y, radius, start, end, None) >>)

fill_chord(x, y, radius, start, end) ==
    Draw("fill_chord", Ints(<< x, y, radius, start, end >>),
         InkOk(OUTLINE_COLOR) /\ InkOk(FILL_COLOR),
         << ChordOp(x, y, radius, start, end, FILL_COLOR) >>)

draw_rectangle(x, y, w, h) ==
    Draw("draw_rectangle", Ints(<< x, y, w, h >>), InkOk(OUTLINE_COLOR),
         << RectangleOp(x, y, w, h, None) >>)

fill_rectangle(x, y, w, h) ==
    Draw("fill_rectangle", Ints(<< x, y, w, h >>),
         InkOk(OUTLINE_COLOR) /\ InkOk(FILL_COLOR),
         << RectangleOp(x, y, w, h, FILL_COLOR) >>)

\* draw_rectangle(x, y, side, side)
draw_square(x, y, side) ==
    Draw("draw_square", Ints(<< x, y, side >>), InkOk(OUTLINE_COLOR),
         << RectangleOp(x, y, side, side, None) >>)

\* fill_rectangle(x, y, side, side)
fill_square(x, y, side) ==
    Draw("fill_square", Ints(<< x, y, side >>),
         InkOk(OUTLINE_COLOR) /\ InkOk(FILL_COLOR),
         << RectangleOp(x, y, side, side, FILL_COLOR) >>)

draw_line(x1, y1, x2, y2) ==
    Draw("draw_line", Ints(<< x1, y1, x2, y2 >>), InkOk(OUTLINE_COLOR),
         << LineOp(Int_(x1), Int_(y1), Int_(x2), Int_(y2)) >>)

\* the font is looked up first: when neither Arial.ttf nor FreeSans.ttf is
\* found the call fails with the OSError of the second lookup
draw_text(x, y, text, font_size) ==
    \E found \in BOOLEAN :
        IF found
        THEN Draw("draw_text",
                  Ints(<< x, y >>) \o << Scalar(Str_(text)), Scalar(Int_(font_size)) >>,
                  InkOk(OUTLINE_COLOR), << TextOp(x, y, text, font_size) >>)
        ELSE /\ moves < MaxMoves
             /\ moves' = moves + 1
             /\ call' = Call("draw_text",
                    Ints(<< x, y >>) \o << Scalar(Str_(text)), Scalar(Int_(font_size)) >>)
             /\ ret' = << >>
             /\ result' = "OSError"
             /\ UNCHANGED << penVars, CANVAS, IMAGE, image >>

\* image is the Picture made by blank_image and written by the pixel setters
draw_image(x, y) ==
    /\ image # NoPicture
    /\ Draw("draw_image", Ints(<< x, y >>), TRUE, << PasteOp(x, y, image) >>)

NextShapes ==
    \/ new_picture(5, 5)
    \/ set_position(<< Scalar(Int_(1)), Scalar(Int_(1)) >>)
    \/ set_direction(Int_(90))
    \/ set_fill_color(<< Scalar(Str_("red")) >>)
    \/ blank_image(2, 1)
    \/ draw_line(0, 0, 4, 4)
    \/ draw_oval(2, 2, 2, 1)
    \/ fill_oval(2, 2, 2, 1)
    \/ draw_circle(2, 2, 1)
    \/ fill_circle(2, 2, 1)
    \/ draw_arc(2, 2, 2, 45, 90)
    \/ draw_chord(2, 2, 2, 45, 90)
    \/ fill_chord(2, 2, 2, 45, 90)
    \/ draw_rectangle(1, 2, 3, 2)
    \/ fill_rectangle(1, 2, 3, 2)
    \/ draw_square(1, 1, 2)
    \/ fill_square(1, 1, 2)
    \/ draw_polygon(Vertices("list", << << 1, 1 >>, << 3, 1 >>, << 3, 3 >> >>))
    \/ fill_polygon(Vertices("list", << << 1, 1 >>, << 3, 1 >>, << 3, 3 >> >>))
    \/ draw_text(1, 1, "Hello!", 16)
    \/ draw_image(1, 1)

SpecShapes == Init /\ [][NextShapes]_vars

-----------------------------------------------------------------------------
(* Properties *)

\* the arguments of the last call, as scalars (for calls taking scalars only)
Arg(c, i) == c.args[i].items[1]

DefaultPen ==
    /\ PEN_POSITION = << Int_(0), Int_(0) >>
    /\ PEN_ROTATION = Int_(0)
    /\ PEN_WIDTH = Int_(1)
    /\ FILL_COLOR = White
    /\ OUTLINE_COLOR = Black

\* the buffer new_picture(width, height) is to leave: all white, that size
BlankOfSize(img, c) ==
    /\ ~ img.none
    /\ img.width = Arg(c, 1).v
    /\ img.height = Arg(c, 2).v
    /\ img.ops = << >>

\* C1 (as stated): a new_picture call made while a picture exists replaces
\* the buffer by an all-white buffer of the new size and resets the pen state
\* to its defaults: position (0,0), direction 0, width 1, fill white, outline
\* black.
C1_NewPictureResetsPen ==
    [][ (~ IMAGE.none /\ call'.op = "new_picture")
            => (BlankOfSize(IMAGE', call') /\ DefaultPen') ]_vars

\* C1 (amended): a new_picture call made while a picture exists replaces the
\* buffer by an all-white buffer of the new size, resizes the canvas to it,
\* and leaves the pen state (position, direction, width, fill colour, outline
\* colour) as it was.
C1_NewPictureKeepsPen ==
    [][ (~ IMAGE.none /\ call'.op = "new_picture")
            => /\ result' = "ok"
               /\ BlankOfSize(IMAGE', call')
               /\ CANVAS'.width = IMAGE'.width /\ CANVAS'.height = IMAGE'.height
               /\ UNCHANGED penVars ]_vars

\* C1 witness: a picture on which a line had been drawn has been replaced by
\* one of another size, with every pen attribute away from its default
C1_Witness ==
    /\ call.op = "new_picture"
    /\ CANVAS.resized
    /\ IMAGE.width = 800 /\ IMAGE.ops = << >>
    /\ moves > 0
    /\ PEN_POSITION # << Int_(0), Int_(0) >>
    /\ PEN_ROTATION = Int_(30)
    /\ PEN_WIDTH = Int_(3)
    /\ FILL_COLOR = << 127, 255, 212 >>
    /\ OUTLINE_COLOR = << 95, 158, 160 >>

\* 0 <= x < 360 for a number x
InRange360(x) ==
    /\ IsNumber(x)
    /\ Milli(x) > 0 \/ (Milli(x) = 0 /\ x.e >= 0)
    /\ Milli(x) < 360 * Scale

\* the largest multiple of 360 degrees any turn of the model spans
MaxTurns == 3

\* the residue r in [0, 360) of a whole number of degrees n: n = 360 q + r
Residue360(n) ==
    CHOOSE r \in 0..359 : \E q \in (0 - MaxTurns)..MaxTurns : n = 360 * q + r

\* the mathematical (a + b) mod 360, in units of 1 / Scale, as the nearest
\* representable number: a sum that lies 1e-20 below a multiple of 360 has
\* the residue 360 - 1e-20, whose nearest float is 360.0
MathMod360(a, b) ==
    LET r == Residue360((Milli(a) + Milli(b)) \div Scale)
    IN  IF r = 0 /\ a.e + b.e < 0 THEN 360 * Scale ELSE r * Scale

\* C2: in every reachable state the stored direction d satisfies
\* 0 <= d < 360, and right after set_direction(theta) the direction is
\* theta mod 360.
C2_DirectionInRange ==
    /\ InRange360(PEN_ROTATION)
    /\ call.op = "set_direction"
           => Milli(PEN_ROTATION) = MathMod360(Arg(call, 1), Int_(0))

\* C3: for every direction d and every delta, rotate(delta) sets the
\* direction to the mathematical (d + delta) mod 360, a value in [0, 360)
\* and never a negative remainder, and changes no other pen attribute.
C3_RotateIsFloorMod ==
    [][ call'.op = "rotate"
            => /\ result' = "ok"
               /\ InRange360(PEN_ROTATION')
               /\ Milli(PEN_ROTATION') = MathMod360(PEN_ROTATION, Arg(call', 1))
               /\ UNCHANGED << PEN_POSITION, PEN_WIDTH, FILL_COLOR,
                               OUTLINE_COLOR >> ]_vars

\* C3, for whole numbers of degrees only: rotate(delta) with an int delta
\* from an int direction d gives the int (d + delta) mod 360 in [0, 360)
\* (direction 10, rotate(-30) gives 340) and changes no other pen attribute.
C3_RotateIsFloorModOnInts ==
    [][ (call'.op = "rotate" /\ IsInt(PEN_ROTATION) /\ IsInt(Arg(call', 1)))
            => /\ result' = "ok"
               /\ IsInt(PEN_ROTATION')
               /\ InRange360(PEN_ROTATION')
               /\ Milli(PEN_ROTATION') = MathMod360(PEN_ROTATION, Arg(call', 1))
               /\ (PEN_ROTATION = Int_(10) /\ Arg(call', 1) = Int_(-30))
                      => PEN_ROTATION' = Int_(340)
               /\ UNCHANGED << PEN_POSITION, PEN_WIDTH, FILL_COLOR,
                               OUTLINE_COLOR >> ]_vars

\* the pen state is well formed: the position is a pair of numbers, the
\* direction a number and the outline colour a triple
PenWellFormed ==
    /\ Len(PEN_POSITION) = 2
    /\ IsNumber(PEN_POSITION[1]) /\ IsNumber(PEN_POSITION[2])
    /\ IsNumber(PEN_ROTATION)
    /\ Len(OUTLINE_COLOR) = 3

\* C4: with a picture in existence, draw_forward(distance) from (x, y) and
\* direction d succeeds, draws exactly one line from (x, y) to
\* (x + cos(d) * distance, y + sin(d) * distance) in the outline colour and
\* pen width, moves the pen to that end point, and leaves direction, width
\* and both colours unchanged; distance 0 leaves the position where it was,
\* and from (100, 100) with direction 0, draw_forward(10) ends at (110, 100).
C4_DrawForward ==
    [][ (call'.op = "draw_forward" /\ ~ IMAGE.none /\ PenWellFormed)
            => LET x == PEN_POSITION[1]
                   y == PEN_POSITION[2]
                   dist == Milli(Arg(call', 1)) \div Scale
                   ex == Milli(x) + CosMilli(PEN_ROTATION) * dist
                   ey == Milli(y) + SinMilli(PEN_ROTATION) * dist
               IN  /\ result' = "ok"
                   /\ Len(PEN_POSITION') = 2
                   /\ Milli(PEN_POSITION'[1]) = ex
                   /\ Milli(PEN_POSITION'[2]) = ey
                   /\ Len(IMAGE'.ops) = Len(IMAGE.ops) + 1
                   /\ SubSeq(IMAGE'.ops, 1, Len(IMAGE.ops)) = IMAGE.ops
                   /\ LET op == IMAGE'.ops[Len(IMAGE'.ops)]
                      IN  /\ op.kind = "line"
                          /\ op.xy[1] = x /\ op.xy[2] = y
                          /\ op.xy[3] = PEN_POSITION'[1]
                          /\ op.xy[4] = PEN_POSITION'[2]
                          /\ op.fill = OUTLINE_COLOR
                          /\ op.width = PEN_WIDTH
                   /\ IMAGE'.width = IMAGE.width /\ IMAGE'.height = IMAGE.height
                   /\ dist = 0 => /\ NumEq(PEN_POSITION'[1], x)
                                  /\ NumEq(PEN_POSITION'[2], y)
                   /\ ( /\ dist = 10 /\ Milli(PEN_ROTATION) = 0
                        /\ Milli(x) = 100 * Scale /\ Milli(y) = 100 * Scale )
                          => /\ Milli(PEN_POSITION'[1]) = 110 * Scale
                             /\ Milli(PEN_POSITION'[2]) = 100 * Scale
                   /\ UNCHANGED << PEN_ROTATION, PEN_WIDTH, FILL_COLOR,
                                   OUTLINE_COLOR >> ]_vars

\* C4 witness: draw_forward(10) on a picture has drawn the line from
\* (100, 100) to (110.0, 100.0) and left the pen there
C4_Witness ==
    /\ call.op = "draw_forward"
    /\ Arg(call, 1) = Int_(10)
    /\ result = "ok"
    /\ PEN_ROTATION = Int_(0)
    /\ PEN_POSITION = << Float_(110 * Scale), Float_(100 * Scale) >>
    /\ Len(IMAGE.ops) > 0
    /\ IMAGE.ops[Len(IMAGE.ops)].xy =
           << Int_(100), Int_(100), Float_(110 * Scale), Float_(100 * Scale) >>

\* whether the arguments are a point of exactly two integers: two integer
\* arguments, or one pair of integers
IsIntPoint(args) ==
    \/ /\ Len(args) = 2
       /\ \A i \in 1..2 : args[i].c = "scalar" /\ IsInt(args[i].items[1])
    \/ /\ Len(args) = 1
       /\ args[1].c = "tuple"
       /\ Len(args[1].items) = 2
       /\ AllInt(args[1].items)

\* C5: set_position succeeds on a point of exactly two integers; with any
\* other arguments it fails and leaves the position unchanged; so after a
\* successful set_position the position is a pair of integers.
C5_SetPositionOnlyIntPairs ==
    [][ call'.op = "set_position"
            => IF IsIntPoint(call'.args)
               THEN /\ result' = "ok"
                    /\ Len(PEN_POSITION') = 2 /\ AllInt(PEN_POSITION')
               ELSE /\ result' # "ok"
                    /\ PEN_POSITION' = PEN_POSITION ]_vars

\* a colour: exactly three integers in [0, 255]
IsColor(rgb) == Len(rgb) = 3 /\ \A i \in 1..3 : rgb[i] \in 0..255

\* whether the arguments are a container of exactly three integers in
\* [0, 255], or exactly three such integers
IsColorSpec(args) ==
    \/ /\ Len(args) = 3
       /\ \A i \in 1..3 : /\ args[i].c = "scalar"
                          /\ IsInt(args[i].items[1])
                          /\ args[i].items[1].v \in 0..255
    \/ /\ Len(args) = 1
       /\ args[1].c # "scalar"
       /\ Len(args[1].items) = 3
       /\ \A i \in 1..3 : /\ IsInt(args[1].items[i])
                          /\ args[1].items[i].v \in 0..255

\* whether the arguments are one string (a colour name)
IsName(args) ==
    Len(args) = 1 /\ args[1].c = "scalar" /\ args[1].items[1].k = "str"

\* C6: the stored fill and outline colours are always triples of integers in
\* [0, 255]; a set_fill_color / set_outline_color call whose tuple-form or
\* integer-form argument is not exactly three integers in [0, 255] fails and
\* leaves the stored colour unchanged.
C6_ColorsAreTriples ==
    [][ /\ IsColor(FILL_COLOR') /\ IsColor(OUTLINE_COLOR')
        /\ ( /\ call'.op \in {"set_fill_color", "set_outline_color"}
             /\ ~ IsName(call'.args) /\ ~ IsColorSpec(call'.args) )
              => /\ result' # "ok"
                 /\ UNCHANGED << FILL_COLOR, OUTLINE_COLOR >> ]_vars

\* Python's == on two positions: (0, 0) == (0.0, 0.0)
SamePosition(p, q) ==
    /\ Len(p) = Len(q)
    /\ \A i \in 1..Len(p) : IsNumber(p[i]) /\ IsNumber(q[i]) /\ NumEq(p[i], q[i])

\* C7: when an operation fails none of its effects are applied; when
\* draw_forward fails, the pen position, direction, width and colours are
\* as before the call.
C7_FailureAppliesNothing ==
    [][ result' # "ok"
            => /\ SamePosition(PEN_POSITION', PEN_POSITION)
               /\ UNCHANGED << PEN_ROTATION, PEN_WIDTH, FILL_COLOR,
                               OUTLINE_COLOR, IMAGE, CANVAS, image >> ]_vars

\* C8: pos = get_position() followed by set_position(pos) succeeds and sets
\* the position to pos, in every reachable pen state.
C8_SaveRestorePosition ==
    [][ ( /\ call.op = "get_position"
          /\ call' = Call("set_position", << Tuple(ret) >>) )
            => (result' = "ok" /\ PEN_POSITION' = ret) ]_vars

\* the integer coordinates and value of a pixel call
ArgX(c) == c.args[1].items[1].v

ArgY(c) == c.args[2].items[1].v

ArgVal(c) == c.args[3].items[1].v

\* 0 <= x < width and 0 <= y < height
InImage(img, x, y) == x \in 0..(img.width - 1) /\ y \in 0..(img.height - 1)

\* the channel set_red, set_green, set_blue name
ChannelOf(op) == CASE op = "set_red" -> 1 [] op = "set_green" -> 2 [] op = "set_blue" -> 3

PixelReads == {"get_pixel", "get_red", "get_green", "get_blue"}

ChannelWrites == {"set_red", "set_green", "set_blue"}

PixelCalls == PixelReads \cup ChannelWrites \cup {"set_pixel"}

\* C9: at an in-range coordinate (x, y), set_red, set_green and set_blue
\* with a channel value v (0 <= v <= 255) succeed and change only the named
\* channel of pixel (x, y), to v: the other two channels of that pixel, every
\* other pixel and the size of the image are as before the call.
C9_ChannelSetterFrame ==
    [][ ( /\ call'.op \in ChannelWrites
          /\ InImage(image, ArgX(call'), ArgY(call'))
          /\ ArgVal(call') \in 0..255 )
            => LET at == << ArgX(call'), ArgY(call') >>
                   ch == ChannelOf(call'.op)
               IN  /\ result' = "ok"
                   /\ image'.width = image.width /\ image'.height = image.height
                   /\ DOMAIN image'.px = DOMAIN image.px
                   /\ image'.px[at][ch] = ArgVal(call')
                   /\ \A other \in (1..3) \ {ch} :
                          image'.px[at][other] = image.px[at][other]
                   /\ \A q \in DOMAIN image.px :
                          q # at => image'.px[q] = image.px[q] ]_vars

\* C9 witness: set_green(image, 1, 0, 7) has changed the green channel of a
\* pixel whose red and blue channels differ, next to a pixel that is not white
C9_Witness ==
    /\ call.op = "set_green"
    /\ ArgX(call) = 1 /\ ArgY(call) = 0 /\ ArgVal(call) = 7
    /\ result = "ok"
    /\ image.px[<< 1, 0 >>] = << 255, 7, 7 >>
    /\ image.px[<< 0, 0 >>] = << 7, 255, 255 >>

\* C10 (as stated): every pixel read or write at a coordinate with x < 0,
\* x >= width, y < 0 or y >= height fails and leaves every pixel of the image
\* unchanged.
C10_OutOfRangeFails ==
    [][ ( /\ call'.op \in PixelCalls
          /\ ~ InImage(image, ArgX(call'), ArgY(call')) )
            => (result' # "ok" /\ image' = image) ]_vars

\* x < -width, x >= width, y < -height or y >= height
BeyondImage(img, x, y) ==
    x < 0 - img.width \/ x >= img.width \/ y < 0 - img.height \/ y >= img.height

\* C10 (amended): every pixel read or write at a coordinate with x >= width,
\* x < -width, y >= height or y < -height fails (with an IndexError, unless
\* set_pixel rejects its colour first) and leaves the image unchanged; a
\* negative coordinate from -width (-height) to -1 is no error: it addresses
\* column width + x (row height + y), which get_pixel returns.
C10_BeyondRangeFails ==
    [][ call'.op \in PixelCalls
            => LET x == ArgX(call')
                   y == ArgY(call')
                   xx == IF x < 0 THEN x + image.width ELSE x
                   yy == IF y < 0 THEN y + image.height ELSE y
               IN  /\ BeyondImage(image, x, y)
                      => /\ result' # "ok"
                         /\ image' = image
                         /\ ( \/ call'.op # "set_pixel"
                              \/ parse_color(SubSeq(call'.args, 3, Len(call'.args))).err = "ok" )
                                => result' = "IndexError"
                   /\ (~ BeyondImage(image, x, y) /\ call'.op = "get_pixel")
                      => /\ result' = "ok"
                         /\ ret' = image.px[<< xx, yy >>]
                         /\ image' = image ]_vars

\* C10 witness: get_pixel(image, width, 0) has failed on an image that has
\* been written to, and the image is as it was
C10_Witness ==
    /\ call.op = "get_pixel"
    /\ image.width = 2
    /\ ArgX(call) = image.width /\ ArgY(call) = 0
    /\ result = "IndexError"
    /\ image.px[<< 1, 0 >>] = << 255, 7, 7 >>

\* the commands fill_polygon(vertices) is to add: the interior fill in the
\* fill colour first, the closed boundary stroke in the outline colour second
FillThenStroke(points) ==
    << PolygonOp(points), PathOp(Closed(points)) >>

\* every pixel of the closed boundary through points holds this colour
BoundaryHolds(img, points, color) ==
    \A p \in Pixels(img) : OnPath(Closed(points), p) => ColorAt(img, p) = color

\* C11 (as stated): on a picture, with a fill colour and an outline colour
\* that are colour triples, fill_polygon(vertices) on a sequence of one or
\* more vertices fills the interior in the fill colour first and strokes the
\* closed boundary in the outline colour second, so that after the call every
\* pixel of the closed boundary holds the outline colour.
C11_FillPolygonOutlinesBoundary ==
    [][ ( /\ call'.op = "fill_polygon"
          /\ ~ IMAGE.none
          /\ IsColor(FILL_COLOR) /\ IsColor(OUTLINE_COLOR)
          /\ Len(call'.args[1].items) >= 1 )
            => LET points == call'.args[1].items
               IN  /\ result' = "ok"
                   /\ IMAGE'.ops = IMAGE.ops \o FillThenStroke(points)
                   /\ BoundaryHolds(IMAGE', points, OUTLINE_COLOR) ]_vars

\* C11 on a Python list of two or more vertices: the fill comes first, the
\* stroke second, and every pixel of the closed boundary holds the outline
\* colour, whatever the two colours and whatever was drawn before.
C11_FillPolygonOfListStrokesLast ==
    [][ ( /\ call'.op = "fill_polygon"
          /\ ~ IMAGE.none
          /\ IsColor(FILL_COLOR) /\ IsColor(OUTLINE_COLOR)
          /\ call'.args[1].c = "list"
          /\ Len(call'.args[1].items) >= 2 )
            => LET points == call'.args[1].items
               IN  /\ result' = "ok"
                   /\ IMAGE'.ops = IMAGE.ops \o FillThenStroke(points)
                   /\ BoundaryHolds(IMAGE', points, OUTLINE_COLOR)
                   /\ \A p \in Pixels(IMAGE') :
                          Inside(points, p) => ColorAt(IMAGE', p) = FILL_COLOR
                   /\ UNCHANGED penVars ]_vars

\* a filled and outlined polygon whose two colours differ is on the picture,
\* drawn over an earlier drawing
C11_FilledPolygonDrawn ==
    /\ call.op = "fill_polygon"
    /\ result = "ok"
    /\ FILL_COLOR # OUTLINE_COLOR
    /\ Len(IMAGE.ops) = 3
    /\ Len(call.args[1].items) = 4
    /\ ColorAt(IMAGE, << 2, 2 >>) = FILL_COLOR
    /\ ColorAt(IMAGE, << 1, 1 >>) = OUTLINE_COLOR

\* the shape, line, text and image primitives
Primitives ==
    { "draw_line", "draw_oval", "fill_oval", "draw_circle", "fill_circle",
      "draw_arc", "draw_chord", "fill_chord", "draw_rectangle",
      "fill_rectangle", "draw_square", "fill_square", "draw_polygon",
      "fill_polygon", "draw_text", "draw_image" }

\* where a primitive call is to render, from its arguments alone: the
\* coordinates of each command it gives, in order
Geometry(c) ==
    LET a(i) == c.args[i].items[1].v
    IN  CASE c.op \in {"draw_oval", "fill_oval"}
                -> << << a(1) - a(3), a(2) - a(4), a(1) + a(3), a(2) + a(4) >> >>
          [] c.op \in {"draw_circle", "fill_circle", "draw_arc", "draw_chord",
                       "fill_chord"}
                -> << << a(1) - a(3), a(2) - a(3), a(1) + a(3), a(2) + a(3) >> >>
          [] c.op \in {"draw_rectangle", "fill_rectangle"}
                -> << << a(1), a(2), a(1) + a(3), a(2) + a(4) >> >>
          [] c.op \in {"draw_square", "fill_square"}
                -> << << a(1), a(2), a(1) + a(3), a(2) + a(3) >> >>
          [] c.op = "draw_line"
                -> << << Arg(c, 1), Arg(c, 2), Arg(c, 3), Arg(c, 4) >> >>
          [] c.op = "draw_polygon"
                -> << Closed(c.args[1].items) >>
          [] c.op = "fill_polygon"
                -> << c.args[1].items, Closed(c.args[1].items) >>
          [] c.op \in {"draw_text", "draw_image"}
                -> << << a(1), a(2) >> >>

\* C12: every shape, line, text and image primitive leaves the whole pen
\* state unchanged (position, direction, width, fill colour and outline
\* colour are the same before and after the call, whether it succeeds or
\* fails), and what it renders is placed by its arguments alone, whatever the
\* pen position and direction are: the earlier drawing stays and the
\* commands it adds have the coordinates its arguments give.
C12_PrimitivesLeavePen ==
    [][ call'.op \in Primitives
            => /\ UNCHANGED penVars
               /\ result' = "ok"
                  => LET g == Geometry(call')
                         n == Len(IMAGE.ops)
                     IN  /\ Len(IMAGE'.ops) = n + Len(g)
                         /\ SubSeq(IMAGE'.ops, 1, n) = IMAGE.ops
                         /\ \A i \in 1..Len(g) : IMAGE'.ops[n + i].xy = g[i]
                         /\ IMAGE'.width = IMAGE.width
                         /\ IMAGE'.height = IMAGE.height ]_vars

\* C12 witness: with the pen moved to (1, 1), turned to 90 and filling in
\* red, fill_rectangle(1, 2, 3, 2) has drawn its rectangle from (1, 2) to
\* (4, 4) over an earlier drawing, and the pen is as it was
C12_Witness ==
    /\ call.op = "fill_rectangle"
    /\ result = "ok"
    /\ PEN_POSITION = << Int_(1), Int_(1) >>
    /\ PEN_ROTATION = Int_(90)
    /\ FILL_COLOR = << 255, 0, 0 >>
    /\ Len(IMAGE.ops) = 2
    /\ IMAGE.ops[2].xy = << 1, 2, 4, 4 >>
    /\ IMAGE.ops[2].fill = FILL_COLOR

=============================================================================
